---- MODULE Spec2Model ----
(***************************************************************************)
(* Bowerbirder job orchestration: the API's create_job / get_job_status    *)
(* (app/main.py) and the worker's claim loop, process_job pipeline and     *)
(* expiry reaper (app/worker.py), over one shared Redis store.             *)
(*                                                                         *)
(* Steps are cut where another process can interfere: between create_job's *)
(* LLEN, SETEX and LPUSH, between the GET and the SET of an                *)
(* update_job_status call that races with key expiry or with the reaper,   *)
(* and between the stages of process_job.  A SET of the worker that fails  *)
(* raises with or without the record written; a failing BRPOP takes no id. *)
(* Time is kept as remaining / elapsed seconds per timer and advanced by   *)
(* Tick in steps of TickSeconds.                                           *)
(***************************************************************************)
EXTENDS Integers, Sequences, FiniteSets, TLC

\* ------------------------------------------------------------ bounds
MaxJobs == 2        \* submissions (requests) made during a run
NumWorkers == 2     \* worker processes consuming the shared queue
TickSeconds == 1800 \* seconds that pass in one Tick

\* ------------------------------------------------------------ program constants
MAX_QUEUED_JOBS == 10
MIN_IMAGES == 2
MAX_IMAGES == 6
MAX_IMAGE_SIZE_MB == 20
MAX_TOTAL_SIZE_MB == 100
IMAGE_EXPIRY_MINUTES == 30
MAX_IMAGE_SIZE == MAX_IMAGE_SIZE_MB * 1024 * 1024
MAX_TOTAL_SIZE == MAX_TOTAL_SIZE_MB * 1024 * 1024
STYLE_PRESETS == {"fridge", "scrapbook", "clean"}
ASPECT_RATIOS == {"16:9", "1:1", "9:16"}

job_ttl_seconds == IMAGE_EXPIRY_MINUTES * 2 * 60
expiry_seconds == IMAGE_EXPIRY_MINUTES * 60

\* ------------------------------------------------------------ values
None == "None"               \* Python None / missing JSON key, string-valued fields
NoDetail == <<>>             \* status_detail None
NoInt == 0 - 1               \* None in a number-valued field; a file or directory that does not exist
NoExpiry == 0 - 1            \* a Redis key without TTL (what SET leaves behind)
NoJob == [status |-> None]   \* redis GET returns nil

Requests == 1 .. MaxJobs                               \* ids of the submissions of this run
Backlog == (MaxJobs + 1) .. (MaxJobs + MAX_QUEUED_JOBS) \* ids queued by an earlier run whose records have expired
Ids == Requests \cup Backlog
Workers == 1 .. NumWorkers

Min(a, b) == IF a < b THEN a ELSE b
Max(a, b) == IF a > b THEN a ELSE b

\* ------------------------------------------------------------ state
VARIABLES
    job_queue,   \* Redis list "job_queue": index 1 is the LPUSH end, Len the BRPOP end
    store,       \* Redis key job:{id} -> the JSON record, or NoJob
    ttl,         \* remaining TTL of key job:{id} in seconds, or NoExpiry
    job_images,  \* JOB_IMAGES_DIR/{id}: number of img_*.dat files, NoInt when the directory does not exist
    output,      \* OUTPUT_DIR/{id}.png: file age (now - st_mtime) in seconds, NoInt when absent
    req,         \* each create_job request: position, request body, image count and HTTP response
    wk,          \* each worker's main(): position and locals of main / process_job / update_job_status
    shutdown,    \* each worker process's _shutdown_event
    rp,          \* each worker's cleanup_worker thread: position and locals of cleanup_expired_images
    dequeued,    \* history: how often BRPOP has returned each id
    started,     \* history: how often process_job has been called for each id
    reaped,      \* history: ids whose artifact a reaper has unlinked
    stored       \* history: ids whose record create_job has written

vars == <<job_queue, store, ttl, job_images, output, req, wk, shutdown, rp,
          dequeued, started, reaped, stored>>

\* ------------------------------------------------------------ submissions
\* A request payload: the sizes of its images (len(img)), style and aspect-ratio key.
Payload(sizes, style, aspect) == [sizes |-> sizes, style |-> style, aspect |-> aspect]

Small == MAX_IMAGE_SIZE \div 2
Payloads ==
    { Payload(<<Small, Small>>, "fridge", "16:9"),
      Payload(<<Small, MAX_IMAGE_SIZE>>, "clean", "1:1"),
      Payload(<<Small>>, "fridge", "16:9"),
      Payload([i \in 1 .. (MAX_IMAGES + 1) |-> Small], "fridge", "16:9"),
      Payload(<<Small, MAX_IMAGE_SIZE + 1>>, "fridge", "16:9"),
      Payload([i \in 1 .. MAX_IMAGES |-> MAX_IMAGE_SIZE], "fridge", "16:9"),
      Payload(<<Small, Small>>, "polaroid", "16:9"),
      Payload(<<Small, Small>>, "fridge", "4:3") }

RECURSIVE SumSizes(_)
SumSizes(sizes) == IF sizes = <<>> THEN 0 ELSE Head(sizes) + SumSizes(Tail(sizes))

\* the checks without the one of the aspect-ratio key
Validate_NoAspect(p) ==
    IF Len(p.sizes) < MIN_IMAGES THEN 400
    ELSE IF Len(p.sizes) > MAX_IMAGES THEN 400
    ELSE IF \E i \in 1 .. Len(p.sizes) : p.sizes[i] > MAX_IMAGE_SIZE THEN 413
    ELSE IF SumSizes(p.sizes) > MAX_TOTAL_SIZE THEN 413
    ELSE IF p.style \notin STYLE_PRESETS THEN 400
    ELSE 200

\* create_job's checks after the backpressure check: the HTTP status they raise, 200 when all pass.
Validate(p) ==
    IF Len(p.sizes) < MIN_IMAGES THEN 400
    ELSE IF Len(p.sizes) > MAX_IMAGES THEN 400
    ELSE IF \E i \in 1 .. Len(p.sizes) : p.sizes[i] > MAX_IMAGE_SIZE THEN 413
    ELSE IF SumSizes(p.sizes) > MAX_TOTAL_SIZE THEN 413
    ELSE IF p.style \notin STYLE_PRESETS THEN 400
    ELSE IF p.aspect \notin ASPECT_RATIOS THEN 400
    ELSE 200

\* the record with another initial status
job_data_Pending(n) ==
    [status |-> "pending", status_detail |-> NoDetail, image_paths |-> n,
     image_url |-> NoInt, expires_at |-> NoInt, error |-> None]

\* the record create_job builds
job_data(n) ==
    [status |-> "queued", status_detail |-> NoDetail, image_paths |-> n,
     image_url |-> NoInt, expires_at |-> NoInt, error |-> None]

\* the handler's request local before and after the call
NoRequest == Payload(<<>>, None, None)

Answer(r, code) ==
    req' = [req EXCEPT ![r] = [pc |-> "done", n |-> 0, resp |-> code, request |-> NoRequest]]

\* JobRequest: FastAPI refuses a body whose images list is shorter than
\* MIN_IMAGES or longer than MAX_IMAGES with 422 before create_job runs
JobRequest(p) == Len(p.sizes) >= MIN_IMAGES /\ Len(p.sizes) <= MAX_IMAGES

\* create_job without the backpressure check
CreateJob_NoBackpressure(r) ==
    /\ req[r].pc = "new"
    /\ \E p \in Payloads :
         IF ~JobRequest(p) THEN Answer(r, 422) /\ UNCHANGED job_images
         ELSE IF Validate(p) # 200 THEN Answer(r, Validate(p)) /\ UNCHANGED job_images
         ELSE \/ /\ job_images' = [job_images EXCEPT ![r] = Len(p.sizes)]
                 /\ req' = [req EXCEPT ![r] = [pc |-> "setex", n |-> Len(p.sizes), resp |-> 0,
                                              request |-> p]]
              \/ /\ job_images' = [job_images EXCEPT ![r] = NoInt]
                 /\ Answer(r, 500)
    /\ UNCHANGED <<job_queue, store, ttl, output, wk, shutdown, rp, dequeued, started, reaped,
                   stored>>

\* the backpressure check with > for >=
CreateJob_OffByOne(r) ==
    /\ req[r].pc = "new"
    /\ \E p \in Payloads :
         IF ~JobRequest(p) THEN Answer(r, 422) /\ UNCHANGED job_images
         ELSE IF Len(job_queue) > MAX_QUEUED_JOBS THEN Answer(r, 503) /\ UNCHANGED job_images
         ELSE IF Validate(p) # 200 THEN Answer(r, Validate(p)) /\ UNCHANGED job_images
         ELSE \/ /\ job_images' = [job_images EXCEPT ![r] = Len(p.sizes)]
                 /\ req' = [req EXCEPT ![r] = [pc |-> "setex", n |-> Len(p.sizes), resp |-> 0,
                                              request |-> p]]
              \/ /\ job_images' = [job_images EXCEPT ![r] = NoInt]
                 /\ Answer(r, 500)
    /\ UNCHANGED <<job_queue, store, ttl, output, wk, shutdown, rp, dequeued, started, reaped,
                   stored>>

\* create_job up to the job record: LLEN and the backpressure check, the payload
\* checks, then makedirs and the loop writing img_000.dat ... (all written, or a
\* write fails and the directory is removed again)
CreateJob(r) ==
    /\ req[r].pc = "new"
    /\ \E p \in Payloads :
         IF ~JobRequest(p) THEN Answer(r, 422) /\ UNCHANGED job_images
         ELSE IF Len(job_queue) >= MAX_QUEUED_JOBS THEN Answer(r, 503) /\ UNCHANGED job_images
         ELSE IF Validate(p) # 200 THEN Answer(r, Validate(p)) /\ UNCHANGED job_images
         ELSE \/ /\ job_images' = [job_images EXCEPT ![r] = Len(p.sizes)]
                 /\ req' = [req EXCEPT ![r] = [pc |-> "setex", n |-> Len(p.sizes), resp |-> 0,
                                              request |-> p]]
              \/ /\ job_images' = [job_images EXCEPT ![r] = NoInt]
                 /\ Answer(r, 500)
    /\ UNCHANGED <<job_queue, store, ttl, output, wk, shutdown, rp, dequeued, started, reaped,
                   stored>>

\* the id is pushed where the record should be written
CreateJobSetex_PushFirst(r) ==
    /\ req[r].pc = "setex"
    /\ job_queue' = <<r>> \o job_queue
    /\ req' = [req EXCEPT ![r].pc = "lpush"]
    /\ UNCHANGED <<store, ttl, job_images, output, wk, shutdown, rp, dequeued, started, reaped,
                   stored>>

\* SETEX job:{id} job_ttl_seconds
CreateJobSetex(r) ==
    /\ req[r].pc = "setex"
    /\ store' = [store EXCEPT ![r] = job_data(req[r].n)]
    /\ ttl' = [ttl EXCEPT ![r] = job_ttl_seconds]
    /\ req' = [req EXCEPT ![r].pc = "lpush"]
    /\ stored' = stored \cup {r}
    /\ UNCHANGED <<job_queue, job_images, output, wk, shutdown, rp, dequeued, started, reaped>>

\* the id is pushed at the end BRPOP takes from
CreateJobLpush_Rpush(r) ==
    /\ req[r].pc = "lpush"
    /\ job_queue' = job_queue \o <<r>>
    /\ Answer(r, 200)
    /\ UNCHANGED <<store, ttl, job_images, output, wk, shutdown, rp, dequeued, started, reaped,
                   stored>>

\* LPUSH job_queue id, then the 200 response
CreateJobLpush(r) ==
    /\ req[r].pc = "lpush"
    /\ job_queue' = <<r>> \o job_queue
    /\ Answer(r, 200)
    /\ UNCHANGED <<store, ttl, job_images, output, wk, shutdown, rp, dequeued, started, reaped,
                   stored>>

\* GET /jobs/{id}: 404 when the key is absent, else the JobStatus response
get_job_status(j) ==
    IF store[j] = NoJob THEN [code |-> 404]
    ELSE [code |-> 200, status |-> store[j].status, status_detail |-> store[j].status_detail,
          image_url |-> IF store[j].status = "completed" THEN store[j].image_url ELSE NoInt,
          expires_at |-> IF store[j].status = "completed" THEN store[j].expires_at ELSE NoInt,
          error |-> IF store[j].status = "failed" THEN store[j].error ELSE None]

\* ------------------------------------------------------------ worker: main loop
Idle(pc) ==
    [pc |-> pc, job_id |-> 0, n |-> 0, job |-> NoJob, err |-> None, expires_at |-> NoInt]

\* reads the id at the right end and leaves it in the list
Brpop_Peek(w) ==
    /\ wk[w].pc = "loop"
    /\ ~shutdown[w]
    /\ job_queue # <<>>
    /\ wk' = [wk EXCEPT ![w].pc = "got", ![w].job_id = job_queue[Len(job_queue)]]
    /\ dequeued' = [dequeued EXCEPT ![job_queue[Len(job_queue)]] = Min(@ + 1, 2)]
    /\ UNCHANGED <<job_queue, store, ttl, job_images, output, req, shutdown, rp, started,
                   reaped, stored>>

\* the loop does not look at the shutdown flag
Brpop_NoExit(w) ==
    /\ wk[w].pc = "loop"
    /\ job_queue # <<>>
    /\ wk' = [wk EXCEPT ![w].pc = "got", ![w].job_id = job_queue[Len(job_queue)]]
    /\ job_queue' = SubSeq(job_queue, 1, Len(job_queue) - 1)
    /\ dequeued' = [dequeued EXCEPT ![job_queue[Len(job_queue)]] = Min(@ + 1, 2)]
    /\ UNCHANGED <<store, ttl, job_images, output, req, shutdown, rp, started, reaped, stored>>

\* while not _shutdown_event.is_set(): BRPOP job_queue 5, which removes and returns
\* the id at the right end, or None on timeout
Brpop(w) ==
    /\ wk[w].pc = "loop"
    /\ IF shutdown[w]
       THEN /\ wk' = [wk EXCEPT ![w].pc = "exit"]
            /\ UNCHANGED <<job_queue, dequeued>>
       ELSE IF job_queue = <<>>
       THEN UNCHANGED <<wk, job_queue, dequeued>>
       ELSE /\ wk' = [wk EXCEPT ![w].pc = "got", ![w].job_id = job_queue[Len(job_queue)]]
            /\ job_queue' = SubSeq(job_queue, 1, Len(job_queue) - 1)
            /\ dequeued' = [dequeued EXCEPT ![job_queue[Len(job_queue)]] = Min(@ + 1, 2)]
    /\ UNCHANGED <<store, ttl, job_images, output, req, shutdown, rp, started, reaped, stored>>

\* if result and not _shutdown_event.is_set(): process_job(job_id), whose first
\* GET returns at once when the record is gone
WorkerGot(w) ==
    /\ wk[w].pc = "got"
    /\ IF shutdown[w]
       THEN /\ wk' = [wk EXCEPT ![w] = Idle("loop")]
            /\ UNCHANGED started
       ELSE /\ started' = [started EXCEPT ![wk[w].job_id] = Min(@ + 1, 2)]
            /\ IF store[wk[w].job_id] = NoJob
               THEN wk' = [wk EXCEPT ![w] = Idle("loop")]
               ELSE wk' = [wk EXCEPT ![w].pc = "start", ![w].n = store[wk[w].job_id].image_paths]
    /\ UNCHANGED <<job_queue, store, ttl, job_images, output, req, shutdown, rp,
                   dequeued, reaped, stored>>

\* ------------------------------------------------------------ worker: process_job
\* process_job's stages, each an update_job_status call and the pipeline step after it
\* the status_detail the stage's update_job_status calls pass; i of n images done
Detail(pc, i, n) ==
    CASE pc = "start" -> <<"Optimizing images...", 0, 0>>
      [] pc = "optimize" -> <<"Optimizing image", i, n>>
      [] pc = "upload" -> IF i = 0 THEN <<"Uploading images...", 0, 0>> ELSE <<"Uploading image", i, n>>
      [] pc = "generate" -> <<"Generating collage...", 0, 0>>
      [] pc = "download" -> <<"Downloading result...", 0, 0>>
      [] OTHER -> NoDetail

\* job["status"] = status; job.update(extra)
Processing(job, detail) == [job EXCEPT !.status = "processing", !.status_detail = detail]
Completed_KeepsDetail(job, url, at) ==
    [job EXCEPT !.status = "completed", !.image_url = url, !.expires_at = at]
Completed(job, url, at) ==
    [job EXCEPT !.status = "completed", !.image_url = url, !.expires_at = at,
                !.status_detail = NoDetail]
Failed(job, msg) == [job EXCEPT !.status = "failed", !.error = msg, !.status_detail = NoDetail]

\* update_job_status(job_id, "processing", status_detail=detail) as one step: GET,
\* then SET without EX, which drops the key's TTL; nothing when the record is gone
Put(j, detail) ==
    /\ store' = IF store[j] = NoJob THEN store
                ELSE [store EXCEPT ![j] = Processing(@, detail)]
    /\ ttl' = [ttl EXCEPT ![j] = NoExpiry]

\* str(e) of an exception a library raises (PIL, fal_client, httpx, open, redis);
\* the one message process_job raises itself is "No images returned from fal.ai"
LibraryError == "error"

\* the exception ends the worker process
Raise_Crash(l, msg) == [l EXCEPT !.pc = "exit", !.job = NoJob, !.err = msg]

\* the exception lands in process_job's handler
Raise(l, msg) == [l EXCEPT !.pc = "fail", !.job = NoJob, !.err = msg]

\* update_job_status, first half: GET; the call returns when the record is gone
UpdateGet(w) ==
    /\ wk[w].pc \in {"start", "done", "fail"}
    /\ wk[w].job = NoJob
    /\ IF store[wk[w].job_id] = NoJob
       THEN wk' = [wk EXCEPT ![w].pc = IF wk[w].pc = "start" THEN "optimize" ELSE "finally"]
       ELSE wk' = [wk EXCEPT ![w].job = store[wk[w].job_id],
                             ![w].expires_at = IF wk[w].pc = "done" THEN expiry_seconds ELSE NoInt]
    /\ UNCHANGED <<job_queue, store, ttl, job_images, output, req, shutdown, rp,
                   dequeued, started, reaped, stored>>

\* update_job_status, second half: SET job:{id} (no EX: the key's TTL is dropped)
UpdateSet(w) ==
    /\ wk[w].pc \in {"start", "done", "fail"}
    /\ wk[w].job # NoJob
    /\ store' = [store EXCEPT ![wk[w].job_id] =
                   CASE wk[w].pc = "start" -> Processing(wk[w].job, Detail("start", 0, 0))
                     [] wk[w].pc = "done" -> Completed(wk[w].job, wk[w].job_id, wk[w].expires_at)
                     [] OTHER -> Failed(wk[w].job, wk[w].err)]
    /\ ttl' = [ttl EXCEPT ![wk[w].job_id] = NoExpiry]
    /\ wk' = [wk EXCEPT ![w].pc = IF wk[w].pc = "start" THEN "optimize" ELSE "finally",
                        ![w].job = NoJob, ![w].expires_at = NoInt]
    /\ UNCHANGED <<job_queue, job_images, output, req, shutdown, rp, dequeued, started, reaped,
                   stored>>

\* for i, path in enumerate(image_paths): update, read, decode, optimize.
\* All n images pass, or image k raises after the update that announces it.
Optimize(w) ==
    /\ wk[w].pc = "optimize"
    /\ \/ /\ wk' = [wk EXCEPT ![w].pc = "upload"]
          /\ IF wk[w].n > 0
             THEN Put(wk[w].job_id, Detail("optimize", wk[w].n, wk[w].n))
             ELSE UNCHANGED <<store, ttl>>
       \/ \E k \in 1 .. wk[w].n :
            /\ wk' = [wk EXCEPT ![w] = Raise(wk[w], LibraryError)]
            /\ Put(wk[w].job_id, Detail("optimize", k, wk[w].n))
    /\ UNCHANGED <<job_queue, job_images, output, req, shutdown, rp, dequeued, started, reaped,
                   stored>>

\* update "Uploading images...", then per image: update, upload_to_fal
Upload(w) ==
    /\ wk[w].pc = "upload"
    /\ \/ /\ wk' = [wk EXCEPT ![w].pc = "generate"]
          /\ Put(wk[w].job_id, Detail("upload", wk[w].n, wk[w].n))
       \/ \E k \in 1 .. wk[w].n :
            /\ wk' = [wk EXCEPT ![w] = Raise(wk[w], LibraryError)]
            /\ Put(wk[w].job_id, Detail("upload", k, wk[w].n))
    /\ UNCHANGED <<job_queue, job_images, output, req, shutdown, rp, dequeued, started, reaped,
                   stored>>

\* the step gives the job up when the shutdown flag is set
Generate_Cancellable(w) ==
    /\ wk[w].pc = "generate"
    /\ IF shutdown[w]
       THEN wk' = [wk EXCEPT ![w] = Idle("loop")] /\ UNCHANGED <<store, ttl>>
       ELSE /\ Put(wk[w].job_id, Detail("generate", 0, 0))
            /\ \/ wk' = [wk EXCEPT ![w].pc = "download"]
               \/ \E msg \in {LibraryError, "No images returned from fal.ai"} :
                    wk' = [wk EXCEPT ![w] = Raise(wk[w], msg)]
    /\ UNCHANGED <<job_queue, job_images, output, req, shutdown, rp, dequeued, started, reaped,
                   stored>>

\* update "Generating collage...", then fal_client.subscribe and the check of its result
Generate(w) ==
    /\ wk[w].pc = "generate"
    /\ Put(wk[w].job_id, Detail("generate", 0, 0))
    /\ \/ wk' = [wk EXCEPT ![w].pc = "download"]
       \/ \E msg \in {LibraryError, "No images returned from fal.ai"} :
            wk' = [wk EXCEPT ![w] = Raise(wk[w], msg)]
    /\ UNCHANGED <<job_queue, job_images, output, req, shutdown, rp, dequeued, started, reaped,
                   stored>>

\* update "Downloading result...", then the httpx GET of the result
Download(w) ==
    /\ wk[w].pc = "download"
    /\ Put(wk[w].job_id, Detail("download", 0, 0))
    /\ \/ wk' = [wk EXCEPT ![w].pc = "persist"]
       \/ wk' = [wk EXCEPT ![w] = Raise(wk[w], LibraryError)]
    /\ UNCHANGED <<job_queue, job_images, output, req, shutdown, rp, dequeued, started, reaped,
                   stored>>

\* open(output_path, "wb"); f.write(result_bytes)
Persist(w) ==
    /\ wk[w].pc = "persist"
    /\ \/ /\ output' = [output EXCEPT ![wk[w].job_id] = 0]
          /\ wk' = [wk EXCEPT ![w].pc = "done"]
       \/ /\ output' = output
          /\ wk' = [wk EXCEPT ![w] = Raise(wk[w], LibraryError)]
    /\ UNCHANGED <<job_queue, store, ttl, job_images, req, shutdown, rp, dequeued, started,
                   reaped, stored>>

\* finally: shutil.rmtree(image_dir, ignore_errors=True); back to main's loop
Finally(w) ==
    /\ wk[w].pc = "finally"
    /\ job_images' = [job_images EXCEPT ![wk[w].job_id] = NoInt]
    /\ wk' = [wk EXCEPT ![w] = Idle("loop")]
    /\ UNCHANGED <<job_queue, store, ttl, output, req, shutdown, rp, dequeued, started, reaped,
                   stored>>

\* what the SET of the update_job_status call worker w is in writes
SetValue(w) ==
    CASE wk[w].pc = "start" -> Processing(wk[w].job, Detail("start", 0, 0))
      [] wk[w].pc = "done" -> Completed(wk[w].job, wk[w].job_id, wk[w].expires_at)
      [] OTHER -> Failed(wk[w].job, wk[w].err)

\* A Redis command of the worker raises redis.ConnectionError.  In BRPOP, in
\* process_job's first GET and in the update before the try it reaches main's
\* handler; inside the try it enters process_job's handler; inside that handler
\* the finally clause runs and it reaches main's handler.  When the command is a
\* SET the server may have carried it out before the connection broke (for the
\* progress updates that is the outcome of the stage's own raising branch).
\* A BRPOP that fails has taken no id.
StoreError(w) ==
    /\ wk[w].pc \in {"loop", "got", "start", "optimize", "upload", "generate", "download",
                     "done", "fail"}
    /\ wk[w].pc \in {"loop", "got"} => ~shutdown[w]
    /\ \/ UNCHANGED <<store, ttl>>
       \/ /\ wk[w].pc \in {"start", "done", "fail"} /\ wk[w].job # NoJob
          /\ store' = [store EXCEPT ![wk[w].job_id] = SetValue(w)]
          /\ ttl' = [ttl EXCEPT ![wk[w].job_id] = NoExpiry]
    /\ job_images' = IF wk[w].pc = "fail" THEN [job_images EXCEPT ![wk[w].job_id] = NoInt]
                     ELSE job_images
    /\ started' = IF wk[w].pc = "got" THEN [started EXCEPT ![wk[w].job_id] = Min(@ + 1, 2)]
                  ELSE started
    /\ wk' = [wk EXCEPT ![w] = IF wk[w].pc \in {"loop", "got", "start", "fail"} THEN Idle("loop")
                               ELSE Raise(wk[w], LibraryError)]
    /\ UNCHANGED <<job_queue, output, req, shutdown, rp, dequeued, reaped, stored>>

\* SIGTERM / SIGINT: _signal_handler sets the event
SignalHandler(w) ==
    /\ ~shutdown[w]
    /\ shutdown' = [shutdown EXCEPT ![w] = TRUE]
    /\ UNCHANGED <<job_queue, store, ttl, job_images, output, req, wk, rp,
                   dequeued, started, reaped, stored>>

\* ------------------------------------------------------------ reaper
\* the daemon thread lives as long as its process: until main() returns
Alive(w) == wk[w].pc # "exit"

ExpiredImages == {f \in Ids : output[f] # NoInt /\ output[f] > expiry_seconds}

\* cleanup_worker: _shutdown_event.wait(60) returns; the thread ends when the event
\* is set, else it runs cleanup_expired_images: for each file older than the
\* window, unlink and DEL job:{id}.  The try is around the whole loop, so the
\* first call that raises (stat or unlink, or the DEL after an unlink) ends the sweep.
CleanupWorker(w) ==
    /\ Alive(w)
    /\ rp[w] = "wait"
    /\ IF shutdown[w]
       THEN /\ rp' = [rp EXCEPT ![w] = "exit"]
            /\ UNCHANGED <<store, ttl, output, reaped>>
       ELSE /\ \E del \in SUBSET ExpiredImages :
                 \E unl \in SUBSET (ExpiredImages \ del) :
                    /\ Cardinality(unl) <= 1
                    /\ output' = [j \in Ids |-> IF j \in del \cup unl THEN NoInt ELSE output[j]]
                    /\ store' = [j \in Ids |-> IF j \in del THEN NoJob ELSE store[j]]
                    /\ ttl' = [j \in Ids |-> IF j \in del THEN NoExpiry ELSE ttl[j]]
                    /\ reaped' = reaped \cup del \cup unl
            /\ UNCHANGED rp
    /\ UNCHANGED <<job_queue, job_images, req, wk, shutdown, dequeued, started, stored>>

\* ------------------------------------------------------------ time
Later(t) == IF t = NoInt THEN NoInt ELSE Max(t - TickSeconds, 0)
Older(a) == IF a = NoInt THEN NoInt ELSE Min(a + TickSeconds, expiry_seconds + TickSeconds)
Expired(j) == store[j] # NoJob /\ ttl[j] # NoExpiry /\ ttl[j] - TickSeconds <= 0
Aged(job) == IF job = NoJob THEN NoJob ELSE [job EXCEPT !.expires_at = Later(@)]

\* TickSeconds pass: Redis drops the keys whose TTL has run out, files get older,
\* every recorded expires_at gets nearer
Tick ==
    /\ store' = [j \in Ids |-> IF Expired(j) THEN NoJob ELSE Aged(store[j])]
    /\ ttl' = [j \in Ids |-> IF Expired(j) \/ ttl[j] = NoExpiry THEN NoExpiry
                             ELSE ttl[j] - TickSeconds]
    /\ output' = [j \in Ids |-> Older(output[j])]
    /\ wk' = [w \in Workers |-> [wk[w] EXCEPT !.expires_at = Later(@), !.job = Aged(@)]]
    /\ UNCHANGED <<job_queue, job_images, req, shutdown, rp, dequeued, started, reaped, stored>>

\* ------------------------------------------------------------ specification
\* A fresh deployment: nothing queued, every worker in its loop.
InitFresh ==
    /\ job_queue = <<>>
    /\ job_images = [j \in Ids |-> NoInt]
    /\ wk = [w \in Workers |-> Idle("loop")]
    /\ shutdown = [w \in Workers |-> FALSE]
    /\ rp = [w \in Workers |-> "wait"]

\* A busy deployment: the queue holds MAX_QUEUED_JOBS ids whose records have
\* expired while they waited (their scratch directories are still there), and
\* only worker 1 is running, the others have been stopped.
StaleQueue == [k \in 1 .. MAX_QUEUED_JOBS |-> MaxJobs + k]
InitBusy ==
    /\ job_queue = StaleQueue
    /\ job_images = [j \in Ids |-> IF j \in Backlog THEN MIN_IMAGES ELSE NoInt]
    /\ wk = [w \in Workers |-> IF w = 1 THEN Idle("loop") ELSE Idle("exit")]
    /\ shutdown = [w \in Workers |-> w # 1]
    /\ rp = [w \in Workers |-> IF w = 1 THEN "wait" ELSE "exit"]

\* the busy deployment alone
InitOneWorker ==
    /\ InitBusy
    /\ store = [j \in Ids |-> NoJob]
    /\ ttl = [j \in Ids |-> NoExpiry]
    /\ output = [j \in Ids |-> NoInt]
    /\ req = [r \in Requests |-> [pc |-> "new", n |-> 0, resp |-> 0, request |-> NoRequest]]
    /\ dequeued = [j \in Ids |-> 0]
    /\ started = [j \in Ids |-> 0]
    /\ reaped = {}
    /\ stored = {}

Init ==
    /\ InitFresh \/ InitBusy
    /\ store = [j \in Ids |-> NoJob]
    /\ ttl = [j \in Ids |-> NoExpiry]
    /\ output = [j \in Ids |-> NoInt]
    /\ req = [r \in Requests |-> [pc |-> "new", n |-> 0, resp |-> 0, request |-> NoRequest]]
    /\ dequeued = [j \in Ids |-> 0]
    /\ started = [j \in Ids |-> 0]
    /\ reaped = {}
    /\ stored = {}

Next ==
    \/ \E r \in Requests : CreateJob(r)
    \/ \E r \in Requests : CreateJobSetex(r)
    \/ \E r \in Requests : CreateJobLpush(r)
    \/ \E w \in Workers : Brpop(w)
    \/ \E w \in Workers : WorkerGot(w)
    \/ \E w \in Workers : UpdateGet(w)
    \/ \E w \in Workers : UpdateSet(w)
    \/ \E w \in Workers : Optimize(w)
    \/ \E w \in Workers : Upload(w)
    \/ \E w \in Workers : Generate(w)
    \/ \E w \in Workers : Download(w)
    \/ \E w \in Workers : Persist(w)
    \/ \E w \in Workers : Finally(w)
    \/ \E w \in Workers : StoreError(w)
    \/ \E w \in Workers : SignalHandler(w)
    \/ \E w \in Workers : CleanupWorker(w)
    \/ Tick

Spec == Init /\ [][Next]_vars

\* What the code's scheduling gives: a request handler that has passed its checks
\* runs to its end, a worker process and its reaper thread keep taking their
\* next step, and time passes.  Nothing obliges a client to submit, a signal to
\* arrive or Redis to fail.
WorkerStep(w) ==
    \/ Brpop(w) \/ WorkerGot(w) \/ UpdateGet(w) \/ UpdateSet(w) \/ Optimize(w) \/ Upload(w)
    \/ Generate(w) \/ Download(w) \/ Persist(w) \/ Finally(w)

Fairness ==
    /\ \A r \in Requests : WF_vars(CreateJobSetex(r) \/ CreateJobLpush(r))
    /\ \A w \in Workers : WF_vars(WorkerStep(w))
    /\ \A w \in Workers : WF_vars(CleanupWorker(w))
    /\ WF_vars(Tick)

FairSpec == Init /\ [][Next]_vars /\ Fairness

\* The same with Redis reachable all the time: no command of the worker raises.
NextReachable ==
    \/ \E r \in Requests : CreateJob(r)
    \/ \E r \in Requests : CreateJobSetex(r)
    \/ \E r \in Requests : CreateJobLpush(r)
    \/ \E w \in Workers : Brpop(w)
    \/ \E w \in Workers : WorkerGot(w)
    \/ \E w \in Workers : UpdateGet(w)
    \/ \E w \in Workers : UpdateSet(w)
    \/ \E w \in Workers : Optimize(w)
    \/ \E w \in Workers : Upload(w)
    \/ \E w \in Workers : Generate(w)
    \/ \E w \in Workers : Download(w)
    \/ \E w \in Workers : Persist(w)
    \/ \E w \in Workers : Finally(w)
    \/ \E w \in Workers : SignalHandler(w)
    \/ \E w \in Workers : CleanupWorker(w)
    \/ Tick

\* ... and with no signal arriving either.
NextSteady ==
    \/ \E r \in Requests : CreateJob(r)
    \/ \E r \in Requests : CreateJobSetex(r)
    \/ \E r \in Requests : CreateJobLpush(r)
    \/ \E w \in Workers : Brpop(w)
    \/ \E w \in Workers : WorkerGot(w)
    \/ \E w \in Workers : UpdateGet(w)
    \/ \E w \in Workers : UpdateSet(w)
    \/ \E w \in Workers : Optimize(w)
    \/ \E w \in Workers : Upload(w)
    \/ \E w \in Workers : Generate(w)
    \/ \E w \in Workers : Download(w)
    \/ \E w \in Workers : Persist(w)
    \/ \E w \in Workers : Finally(w)
    \/ \E w \in Workers : CleanupWorker(w)
    \/ Tick

\* Redis reachable and no shutdown, from both deployments
SteadySpec == Init /\ [][NextSteady]_vars /\ Fairness

\* The busy deployment, where one worker process runs: with Redis reachable, and
\* with everything that can happen.
OneWorkerReachableSpec == InitOneWorker /\ [][NextReachable]_vars /\ Fairness
OneWorkerSpec == InitOneWorker /\ [][Next]_vars /\ Fairness

\* ------------------------------------------------------------ claims
Terminal == {"completed", "failed"}
InJob(w) ==
    wk[w].pc \in {"start", "optimize", "upload", "generate", "download", "persist",
                  "done", "fail", "finally"}
InQueue(j) == Cardinality({k \in 1 .. Len(job_queue) : job_queue[k] = j})
Holding(j) == {w \in Workers : wk[w].pc = "got" /\ wk[w].job_id = j}

\* C1: no step changes a completed or failed record to another status, moves a
\* processing record back to queued, or takes a queued record anywhere but to processing.
C1_StatusMonotonic ==
    [][\A j \in Ids :
         (store[j] # NoJob /\ store'[j] # NoJob) =>
            /\ store[j].status \in Terminal => store'[j].status = store[j].status
            /\ store[j].status = "processing" => store'[j].status # "queued"
            /\ store[j].status = "queued" => store'[j].status \in {"queued", "processing"}]_vars

\* C2: every id is returned by BRPOP at most once and never is in the queue again
\* afterwards, process_job is called at most once for it, and a failed job is not queued.
C2_ClaimedOnce ==
    \A j \in Ids :
        /\ dequeued[j] + InQueue(j) <= 1
        /\ started[j] <= dequeued[j]
        /\ store[j].status = "failed" => InQueue(j) = 0

C2_Witness ==
    \E v, w \in Workers :
        /\ InJob(v) /\ InJob(w) /\ wk[v].job_id # wk[w].job_id
        /\ \E j \in Requests : store[j].status = "failed" /\ started[j] = 1

\* C3: when process_job ends for a job whose record it loaded, by returning or by
\* raising, the job's scratch directory is gone.
C3_ScratchRemoved ==
    [][\A w \in Workers :
         (InJob(w) /\ wk'[w].pc = "loop") => job_images'[wk[w].job_id] = NoInt]_vars

\* C4: every id BRPOP has returned has been passed to process_job, or is held by a
\* worker that is about to pass it.
C4_NoDroppedId ==
    \A j \in Requests : dequeued[j] = started[j] + Cardinality(Holding(j))

\* C5: when process_job ends after one of its steps has failed, the record (if the
\* store still holds it) is failed, with an error message and status_detail cleared.
C5_FailureRecorded ==
    [][\A w \in Workers :
         (InJob(w) /\ wk'[w].pc = "loop" /\ (wk[w].pc # "finally" \/ wk[w].err # None)) =>
            (store'[wk[w].job_id] # NoJob =>
                /\ store'[wk[w].job_id].status = "failed"
                /\ store'[wk[w].job_id].error \notin {None, ""}
                /\ store'[wk[w].job_id].status_detail = NoDetail)]_vars

\* the artifact of job j has been written: it is there, or a reaper has removed it
Written(j) == output[j] # NoInt \/ j \in reaped
IsCompleted(job) ==
    /\ job # NoJob
    /\ job.status = "completed"
    /\ job.image_url # NoInt
    /\ job.expires_at # NoInt
    /\ job.status_detail = NoDetail

\* C6 as stated: when process_job returns for a job whose five pipeline steps all
\* succeeded (its artifact has been written), the record is completed, with the
\* result URL and expires_at set and status_detail cleared.
C6_CompletedOnSuccess ==
    [][\A w \in Workers :
         (wk[w].pc = "finally" /\ wk'[w].pc = "loop" /\ Written(wk[w].job_id)) =>
            IsCompleted(store'[wk[w].job_id])]_vars

\* C6 as amended: when process_job returns and no step and no status update has
\* raised, the record, if the store still holds it, is completed with the result
\* URL and expires_at set and status_detail cleared; and a record becomes completed
\* only after its artifact has been written.
C6_CompletedUnlessStoreFails ==
    [][/\ \A w \in Workers :
            (/\ wk[w].pc = "finally" /\ wk'[w].pc = "loop"
             /\ Written(wk[w].job_id) /\ wk[w].err = None
             /\ store'[wk[w].job_id] # NoJob) =>
               IsCompleted(store'[wk[w].job_id])
       /\ \A j \in Ids :
            (store'[j].status = "completed" /\ store[j].status # "completed") => Written(j)]_vars

C6_Witness ==
    \E j \in Requests :
        /\ IsCompleted(store[j]) /\ output[j] # NoInt /\ job_images[j] = NoInt
        /\ started[j] = 1 /\ \A w \in Workers : wk[w].job_id # j

\* C7: every record in the store has a TTL, at most twice the expiry window.
C7_RecordHasTtl ==
    \A j \in Ids :
        store[j] # NoJob => (ttl[j] # NoExpiry /\ ttl[j] > 0 /\ ttl[j] <= 2 * expiry_seconds)

\* C8: every record in the store is eventually gone from it, at least in the runs
\* in which no worker is told to shut down, so that every reaper keeps sweeping.
C8_RecordEventuallyGone ==
    (\A w \in Workers : [](~shutdown[w])) =>
        \A j \in Requests : (store[j] # NoJob) ~> (store[j] = NoJob)

\* C9: once a reaper has removed a job's artifact, a status query for the job
\* finds no record.
C9_ReapedNotFound ==
    \A j \in reaped : get_job_status(j).code = 404

\* C10: a create_job that finds the queue at or above MAX_QUEUED_JOBS is rejected
\* and changes neither the queue nor the store nor the scratch directories.
C10_Backpressure ==
    [][\A r \in Requests :
         (req[r].pc = "new" /\ req'[r].pc # "new" /\ Len(job_queue) >= MAX_QUEUED_JOBS) =>
            /\ req'[r].pc = "done" /\ req'[r].resp \in {422, 503}
            /\ UNCHANGED <<job_queue, store, ttl, job_images>>]_vars

C10_Witness ==
    \E r \in Requests :
        /\ req[r].resp = 503 /\ Len(job_queue) >= MAX_QUEUED_JOBS
        /\ store[r] = NoJob /\ job_images[r] = NoInt

\* what a submission must satisfy to pass validation
Acceptable(p) ==
    /\ Len(p.sizes) >= MIN_IMAGES /\ Len(p.sizes) <= MAX_IMAGES
    /\ \A i \in 1 .. Len(p.sizes) : p.sizes[i] <= MAX_IMAGE_SIZE
    /\ SumSizes(p.sizes) <= MAX_TOTAL_SIZE
    /\ p.style \in STYLE_PRESETS
    /\ p.aspect \in ASPECT_RATIOS

\* C11: a create_job call either stages a submission that passes every validation
\* check, or answers with a rejection and leaves the queue, the records and the
\* scratch directories as they were: no submission with a wrong image count, an
\* oversize image, an oversize total or an unknown style or aspect-ratio key
\* gets as far as a scratch write.
C11_RejectedLeavesNothing ==
    [][\A r \in Requests :
         (req[r].pc = "new" /\ req'[r].pc # "new") =>
            \/ /\ req'[r].pc = "setex"
               /\ Acceptable(req'[r].request)
               /\ job_images'[r] = Len(req'[r].request.sizes)
            \/ /\ req'[r].pc = "done"
               /\ req'[r].resp \in {400, 413, 422, 500, 503}
               /\ UNCHANGED <<job_queue, store, ttl, job_images>>]_vars

C11_Witness ==
    \E r, q \in Requests :
        /\ req[r].resp = 400 /\ req[q].resp = 413
        /\ \A j \in {r, q} : store[j] = NoJob /\ job_images[j] = NoInt /\ InQueue(j) = 0

\* C12: an id is pushed on the queue only when all images of its submission are in
\* its scratch directory and its record has been written, with status queued;
\* a submission whose scratch write failed has no directory, no record and no
\* queue entry.
C12_EnqueuedAfterStaging ==
    [][/\ \A r \in Requests :
            InQueue(r)' > InQueue(r) =>
               /\ req[r].n >= MIN_IMAGES /\ job_images[r] = req[r].n
               /\ r \in stored
               /\ store[r] # NoJob =>
                     (store[r].status = "queued" /\ store[r].image_paths = req[r].n)
       /\ \A r \in Requests :
            req'[r].resp = 500 =>
               (job_images'[r] = NoInt /\ r \notin stored' /\ store'[r] = NoJob
                /\ InQueue(r)' = 0)]_vars

C12_Witness ==
    \E r, q \in Requests :
        /\ req[r].resp = 200 /\ InQueue(r) = 1 /\ store[r].status = "queued"
        /\ job_images[r] = store[r].image_paths
        /\ req[q].resp = 500 /\ job_images[q] = NoInt /\ store[q] = NoJob

\* the worker that dequeued job j has got no further than its first status update
JustClaimed(j) ==
    \E w \in Workers : wk[w].job_id = j /\ wk[w].pc \in {"got", "start", "optimize"}

\* C13 as stated: a status query for the id of an accepted submission, made after
\* create_job has returned and no later than the first status update of the worker
\* that picked the job up, finds the record with status queued.
C13_QueuedAfterSubmit ==
    \A r \in Requests :
        (req[r].resp = 200 /\ (dequeued[r] = 0 \/ JustClaimed(r)) /\ store[r] # NoJob) =>
            (get_job_status(r).code = 200 /\ get_job_status(r).status = "queued")

\* C13 as amended: as long as no worker has dequeued the id of an accepted
\* submission, a status query for it finds the record (while its TTL lasts) with
\* status queued and nothing else set.
C13_QueuedUntilDequeued ==
    \A r \in Requests :
        (req[r].resp = 200 /\ dequeued[r] = 0) =>
            /\ r \in stored
            /\ store[r] # NoJob =>
                  /\ get_job_status(r).code = 200
                  /\ get_job_status(r).status = "queued"
                  /\ get_job_status(r).status_detail = NoDetail
                  /\ get_job_status(r).image_url = NoInt
                  /\ get_job_status(r).error = None
                  /\ ttl[r] # NoExpiry

C13_Witness ==
    \E r \in Requests :
        /\ req[r].resp = 200 /\ dequeued[r] = 0
        /\ store[r] # NoJob /\ get_job_status(r).status = "queued"
        /\ \E w \in Workers : InJob(w) /\ wk[w].job_id \in Requests \ {r}
        /\ \E w \in Workers : wk[w].pc = "loop" /\ ~shutdown[w]

\* C14 as stated: with Redis reachable and no shutdown, a queued job is eventually
\* dequeued, also behind a job that failed, and a job whose record is there when a
\* worker has dequeued it eventually has status completed or failed.
C14_EveryJobFinishes ==
    \A j \in Requests :
        /\ (InQueue(j) = 1) ~> (dequeued[j] = 1)
        /\ (Holding(j) # {} /\ store[j] # NoJob) ~>
               (store[j] # NoJob /\ store[j].status \in Terminal)

\* C14 as amended: ... eventually has status completed or failed, or its record is
\* gone: the TTL ran out before the worker's first status update found it, or the
\* reaper deleted it with an artifact that aged before the completed update.
C14_EveryJobFinishesOrExpires ==
    \A j \in Requests :
        /\ (InQueue(j) = 1) ~> (dequeued[j] = 1)
        /\ (Holding(j) # {} /\ store[j] # NoJob) ~>
               (store[j] = NoJob \/ store[j].status \in Terminal)

\* the one running worker is processing a job while the job before it has failed
C14_Witness ==
    \E j, k \in Requests :
        /\ \A w \in Workers \ {1} : wk[w].pc = "exit"
        /\ store[k] # NoJob /\ store[k].status = "failed" /\ started[k] = 1
        /\ wk[1].job_id = j /\ wk[1].pc = "done" /\ j # k

\* C15: the queue changes only by an enqueue, which puts a new id behind every id
\* already queued (index 1), or by a dequeue, which takes the id with no id before
\* it (index Len) and hands it to a worker; the ids in between keep their order.
\* So of two ids the one enqueued first is dequeued first.
C15_Fifo ==
    [][job_queue' # job_queue =>
         \/ \E r \in Requests :
               /\ InQueue(r) = 0 /\ dequeued[r] = 0
               /\ job_queue' = <<r>> \o job_queue
         \/ /\ job_queue # <<>>
            /\ job_queue' = SubSeq(job_queue, 1, Len(job_queue) - 1)
            /\ dequeued'[job_queue[Len(job_queue)]] = dequeued[job_queue[Len(job_queue)]] + 1
            /\ \E w \in Workers :
                  wk'[w].pc = "got" /\ wk'[w].job_id = job_queue[Len(job_queue)]]_vars

\* the oldest id of the backlog has been dequeued while a new submission waits at
\* the back of the queue
C15_Witness ==
    /\ Len(job_queue) = MAX_QUEUED_JOBS
    /\ job_queue[1] \in Requests
    /\ dequeued[StaleQueue[MAX_QUEUED_JOBS]] = 1
    /\ \A k \in 2 .. Len(job_queue) : dequeued[job_queue[k]] = 0

\* with the flag set, worker w starts no process_job, and leaves one only at its end
NoStartNoAbort ==
    [][\A w \in Workers :
         /\ shutdown[w] => (started' = started \/ wk'[w] = wk[w])
         /\ shutdown[w] => ~(~InJob(w) /\ InJob(w)')
         /\ (InJob(w) /\ ~InJob(w)') =>
               (wk[w].pc = "finally" /\ job_images'[wk[w].job_id] = NoInt)]_vars

C17_FieldsMatchStatus ==
    \A j \in Ids :
        store[j] # NoJob =>
            /\ store[j].image_url # NoInt => store[j].status = "completed"
            /\ store[j].expires_at # NoInt => store[j].status = "completed"
            /\ store[j].error # None => store[j].status = "failed"
            /\ store[j].status \in Terminal => store[j].status_detail = NoDetail

\* the aged artifacts a step leaves behind, as a file or as a record
LeftBehind == {f \in ExpiredImages : ~(output'[f] = NoInt /\ store'[f] = NoJob)}

\* C18: a sweep that removes an artifact leaves at most one aged artifact behind,
\* the one whose handling raised: every other one is gone with its record.
C18_SweepGoesOn ==
    [][reaped' # reaped => Cardinality(LeftBehind) <= 1]_vars

\* C19: once the shutdown flag of a worker process is set, its claim loop takes no
\* further id from the queue and its reaper removes nothing more; the loop exits
\* after the job in flight, if any, also when Redis commands fail; and the reaper
\* thread exits (or ends with its process).
C19_ShutdownTerminates ==
    /\ [][\A w \in Workers :
            shutdown[w] =>
               /\ ~(wk[w].pc = "loop" /\ wk'[w].pc = "got")
               /\ (rp[w] = "wait" /\ rp'[w] = "exit") => (reaped' = reaped /\ output' = output)
               /\ (\A v \in Workers : Alive(v) => shutdown[v]) => reaped' = reaped]_vars
    /\ \A w \in Workers : shutdown[w] ~> (wk[w].pc = "exit")
    /\ \A w \in Workers : shutdown[w] ~> (rp[w] = "exit" \/ ~Alive(w))

\* the worker has exited after the flag was set during a job, and so has its reaper
C19_Witness ==
    /\ shutdown[1] /\ wk[1].pc = "exit" /\ rp[1] = "exit"
    /\ \E j \in Requests : started[j] = 1 /\ store[j] # NoJob /\ job_images[j] = NoInt
    /\ job_queue # <<>>

\* the submissions past the backpressure check whose id is not pushed yet
InFlight == {r \in Requests : req[r].pc \in {"setex", "lpush"}}

\* C20: for every k, as long as no more than k submissions are between their
\* queue-length check and their push at the same time, the queue never holds
\* more than MAX_QUEUED_JOBS + k - 1 ids; k = 1 is one submission at a time.
C20_OvershootBounded ==
    \A k \in 1 .. MaxJobs :
        [](Cardinality(InFlight) <= k) => [](Len(job_queue) <= MAX_QUEUED_JOBS + k - 1)

\* two submissions passed the check together and the queue is over the maximum
C20_Witness ==
    /\ Len(job_queue) = MAX_QUEUED_JOBS + 1
    /\ \A r \in Requests : req[r].resp = 200 /\ InQueue(r) = 1

\* C21: when the reaper removes the artifact of a job whose record is completed,
\* the expires_at of that record has been reached (no time is left on it).
C21_NotReapedBeforeExpiresAt ==
    [][\A j \in Ids :
          (output[j] # NoInt /\ output'[j] = NoInt /\ store[j] # NoJob
             /\ store[j].status = "completed")
          => store[j].expires_at = 0]_vars

====
